---- MODULE Spec2Model ----
(***************************************************************************)
(* A state-machine model of fdfdpy's Simulation object                     *)
(* (src/fdfdpy/simulation.py).                                             *)
(*                                                                         *)
(* Arrays over the Nx-by-Ny grid are represented by their shape (Nx, Ny)   *)
(* and by their values on NCells sampled cells (a function over Cells).    *)
(* Complex amplitudes are represented by non-negative integers.  The       *)
(* routines the Simulation class imports from modules that are not part of *)
(* the source tree (construct_A, solver_direct, born_solve, newton_solve,  *)
(* Nonlinearity, mode) are modelled from their documented contracts.       *)
(* omega, dl, mu_r, xrange and yrange are fixed at construction and never  *)
(* written again; they are left implicit.                                  *)
(***************************************************************************)
EXTENDS Integers, Sequences, FiniteSets, TLC

VARIABLES
    phase,          \* "new": before __init__; "ready": constructed; "failed": __init__ raised
    assembled,      \* construct_A has been called at least once
    L0, NPML, pol, Nx, Ny,
    eps_r, A, derivs, fields,
    src, modes, nonlinearity,
    eps_nl, dnl_de, dnl_deps, Anl,
    last            \* the last call: its name, arguments, error and return value

vars == <<phase, assembled, L0, NPML, pol, Nx, Ny, eps_r, A, derivs, fields,
          src, modes, nonlinearity, eps_nl, dnl_de, dnl_deps, Anl, last>>

-----------------------------------------------------------------------------
(* Bounds of the model *)

NCells == 2
MaxEps == 3
MaxModes == 1
MaxTerms == 2
MaxIter == 2
MaxThr == 1
MaxE == 2
GridNx == 3
GridNy == 4
MaxWidth == 3

(* Scaling of the integer arithmetic *)
SolveScale == 2
ThrDen == 2

-----------------------------------------------------------------------------
(* Values *)

None == [set |-> FALSE]

Cells == 1..NCells

FieldNames == {"Ex", "Ey", "Ez", "Hx", "Hy", "Hz"}

Zeros == [i \in Cells |-> 0]

Ones == [i \in Cells |-> 1]

ArrAdd(a, b) == [i \in Cells |-> a[i] + b[i]]

\* F applied to the value of x, which is computed once
Let(x, F(_)) == CHOOSE out \in {F(v) : v \in {x}} : TRUE

\* Python's int(): truncation toward zero of the quotient n / d, for d > 0
Trunc(n, d) == IF n >= 0 THEN n \div d ELSE -((-n) \div d)

\* the quotient n / d rounded up, for n >= 0 and d > 0
CeilDiv(n, d) == (n + d - 1) \div d

-----------------------------------------------------------------------------
(* External collaborators, from their contracts *)

\* the operator assembled from the permittivity, the PML and the polarization:
\* its diagonal carries the permittivity
construct_A(eps, npml, p) ==
    [A |-> [diag |-> eps, NPML |-> npml, pol |-> p],
     derivs |-> [NPML |-> npml]]

\* A + Anl for a diagonal Anl
MatAdd(M, D) == [M EXCEPT !.diag = ArrAdd(@, D.diag)]

\* the direct solve of M x = b: cell by cell on the diagonal, rounded up, so
\* that x is zero exactly where b is
solver_direct(M, b) == [i \in Cells |-> CeilDiv(b[i] * SolveScale, M.diag[i])]

-----------------------------------------------------------------------------
(* The permittivity setter *)

\* line 88 of the setter: every field entry is unset
setter_fields_keep(old) == old

setter_fields(old) == [f \in FieldNames |-> None]

\* the setter's writes (lines 81-88), for a simulation with PML npml and
\* polarization p whose fields were old
eps_r_setter(new_eps, npml, p, old) ==
    LET c == construct_A(new_eps, npml, p)
    IN  [eps_r |-> new_eps, A |-> c.A, derivs |-> c.derivs,
         fields |-> setter_fields(old)]

-----------------------------------------------------------------------------
(* Construction *)

\* NPML arguments are given in halves, so that a non-integer thickness such
\* as -0.5 is an input; int(n) truncates toward zero
int_NPML(npml_in) == [k \in 1..Len(npml_in) |-> Trunc(npml_in[k], 2)]

_check_inputs(l0, npml, p) ==
    IF ~(l0 > 0) THEN "AssertionError"
    ELSE IF Len(npml) # 2 THEN "AssertionError"
    ELSE IF ~(npml[1] >= 0 /\ npml[2] >= 0) THEN "AssertionError"
    ELSE IF p \notin {"Ez", "Hz"} THEN "AssertionError"
    ELSE "none"

-----------------------------------------------------------------------------
(* The simulation as a value, for the routines that call one another *)

Self ==
    [pol |-> pol, eps_r |-> eps_r, A |-> A, derivs |-> derivs, fields |-> fields,
     src |-> src, nonlinearity |-> nonlinearity, eps_nl |-> eps_nl,
     dnl_de |-> dnl_de, dnl_deps |-> dnl_deps, Anl |-> Anl, solves |-> 0]

RECURSIVE SumTo(_, _)
SumTo(a, n) == IF n = 0 THEN 0 ELSE a[n] + SumTo(a, n - 1)

\* the sum of an array's entries
SumArr(a) == SumTo(a, NCells)

-----------------------------------------------------------------------------
(* Nonlinear terms (class Nonlinearity), from their contract: a Kerr term   *)
(* contributes chi * |e|^2 on its region, scaled by (eps - 1) when          *)
(* eps_scale is set                                                         *)

nl_scale(t, eps, i) == IF t.eps_scale THEN eps[i] - 1 ELSE 1

term_eps_nl(t, e, eps) ==
    [i \in Cells |-> t.chi * t.nl_region[i] * e[i] * e[i] * nl_scale(t, eps, i)]

term_dnl_de(t, e, eps) ==
    [i \in Cells |-> t.chi * t.nl_region[i] * e[i] * nl_scale(t, eps, i)]

term_dnl_deps(t, e, eps) ==
    [i \in Cells |-> IF t.eps_scale THEN t.chi * t.nl_region[i] * e[i] * e[i] ELSE 0]

-----------------------------------------------------------------------------
(* compute_nl *)

\* lines 59-61: the three accumulators start from zero
compute_nl_start_stale(S) ==
    [eps_nl |-> S.eps_nl, dnl_de |-> S.dnl_de, dnl_deps |-> S.dnl_deps]

compute_nl_start(S) == [eps_nl |-> Zeros, dnl_de |-> Zeros, dnl_deps |-> Zeros]

\* lines 62-65: the loop over the registered terms, in order
RECURSIVE compute_nl_loop(_, _, _, _)
compute_nl_loop(acc, terms, e, eps) ==
    IF terms = <<>> THEN acc
    ELSE compute_nl_loop(
            [eps_nl |-> ArrAdd(acc.eps_nl, term_eps_nl(Head(terms), e, eps)),
             dnl_de |-> ArrAdd(acc.dnl_de, term_dnl_de(Head(terms), e, eps)),
             dnl_deps |-> ArrAdd(acc.dnl_deps, term_dnl_deps(Head(terms), e, eps))],
            Tail(terms), e, eps)

\* lines 66-68: the diagonal perturbation operator
compute_nl_Anl_from_eps_r(S, acc) == [set |-> TRUE, diag |-> S.eps_r]

compute_nl_Anl(S, acc) == [set |-> TRUE, diag |-> acc.eps_nl]

compute_nl(S, e) ==
    Let(compute_nl_loop(compute_nl_start(S), S.nonlinearity, e, S.eps_r),
        LAMBDA acc :
            [S EXCEPT !.eps_nl = acc.eps_nl, !.dnl_de = acc.dnl_de,
                      !.dnl_deps = acc.dnl_deps, !.Anl = compute_nl_Anl(S, acc)])

-----------------------------------------------------------------------------
(* solve_fields *)

\* the three entries a solve writes, companions first (lines 153-155, 167-169)
solve_fields_names_crossed(p) ==
    IF p = "Hz" THEN <<"Hx", "Hy", "Ez">> ELSE <<"Ex", "Ey", "Hz">>

solve_fields_names(p) ==
    IF p = "Hz" THEN <<"Ex", "Ey", "Hz">> ELSE <<"Hx", "Hy", "Ez">>

\* a field recovered from the primary field X by the difference operator D,
\* with sign s and the material weight w, for the permittivity eps
FieldOf(X, D, s, w, eps) ==
    [set |-> TRUE, x |-> X, D |-> D, s |-> s, w |-> w, eps |-> eps]

\* lines 131-171: the returned triple, companions first
field_triple(S, X, eps_tot) ==
    IF S.pol = "Hz"
    THEN << FieldOf(X, "Dyb", 1, eps_tot, S.eps_r),
            FieldOf(X, "Dxb", -1, eps_tot, S.eps_r),
            FieldOf(X, "I", 1, Ones, S.eps_r) >>
    ELSE << FieldOf(X, "Dyb", -1, Ones, S.eps_r),
            FieldOf(X, "Dxb", 1, Ones, S.eps_r),
            FieldOf(X, "I", 1, Ones, S.eps_r) >>

\* the fields mapping with the triple t written under the names n
write_fields(old, n, t) ==
    [f \in FieldNames |->
        IF f = n[1] THEN t[1] ELSE IF f = n[2] THEN t[2]
        ELSE IF f = n[3] THEN t[3] ELSE old[f]]

solve_fields(S, include_nl) ==
    IF include_nl /\ S.Anl = None
    THEN [S |-> S, err |-> "AttributeError", ret |-> None]
    ELSE IF S.pol \notin {"Hz", "Ez"}
    THEN [S |-> S, err |-> "ValueError", ret |-> None]
    ELSE
      Let(field_triple(S,
                       solver_direct(IF include_nl THEN MatAdd(S.A, S.Anl) ELSE S.A,
                                     S.src),
                       IF include_nl THEN ArrAdd(S.eps_r, S.eps_nl) ELSE S.eps_r),
          LAMBDA t :
            [S |-> [S EXCEPT !.fields = write_fields(@, solve_fields_names(S.pol), t),
                             !.solves = @ + 1],
             err |-> "none", ret |-> t])

-----------------------------------------------------------------------------
(* The nonlinear solvers (born_solve, newton_solve), from their contract:   *)
(* INIT -> ITERATING -> {CONVERGED, MAX_ITER_EXCEEDED}                      *)

\* the residual of a step, norm(E - Eprev) / norm(E), kept as the pair of the
\* squared norms: a zero denominator is a residual that is not a number
residual(E, Eprev) ==
    [num |-> SumArr([i \in Cells |-> (E[i] - Eprev[i]) * (E[i] - Eprev[i])]),
     den |-> SumArr([i \in Cells |-> E[i] * E[i]])]

\* residual < conv_threshold, for the threshold thr / ThrDen
Below(res, thr) ==
    /\ res.den > 0
    /\ res.num * ThrDen * ThrDen < thr * thr * res.den

\* INIT: the caller's Estart, or the linear solution when there is none
seed(S, Estart) ==
    IF Estart = None
    THEN Let(solve_fields(S, FALSE), LAMBDA r : [S |-> r.S, E |-> r.ret[3].x])
    ELSE [S |-> S, E |-> Estart.x]

\* how a finished run is reported
finished(S, t, conv, thr) ==
    [S |-> S, err |-> "none", ret |-> t, conv_array |-> conv,
     state |-> IF Below(conv[Len(conv)], thr) THEN "CONVERGED"
               ELSE "MAX_ITER_EXCEEDED"]

\* the fixed-point step: the perturbation at the current estimate, then the
\* linear solve with A + Anl against the same source
born_step(S, E) ==
    Let(solve_fields(compute_nl(S, E), TRUE),
        LAMBDA r : [S |-> r.S, ret |-> r.ret, E |-> r.ret[3].x,
                    res |-> residual(r.ret[3].x, E)])

\* the Newton step: F(E) = (A + Anl(E)) E - b linearized with d(eps_nl)/d(field)
newton_update(S, E) ==
    [i \in Cells |->
        LET d == S.A.diag[i] + S.Anl.diag[i]
            F == d * E[i] - SolveScale * S.src[i]
            J == d + S.dnl_de[i] * E[i]
        IN  E[i] - Trunc(F, J)]

newton_step(S, E) ==
    Let(compute_nl(S, E), LAMBDA S1 :
        Let(newton_update(S1, E), LAMBDA Enew :
            [S |-> S1, ret |-> field_triple(S1, Enew, ArrAdd(S1.eps_r, S1.eps_nl)),
             E |-> Enew, res |-> residual(Enew, E)]))

\* ITERATING: steps until the residual is below the threshold or n steps are
\* done
RECURSIVE iterate(_, _, _, _, _, _)
iterate(solver_nl, S, E, conv, thr, n) ==
    Let(IF solver_nl = "born" THEN born_step(S, E) ELSE newton_step(S, E),
        LAMBDA st :
            IF Below(st.res, thr) \/ n <= 1
            THEN finished(st.S, st.ret, Append(conv, st.res), thr)
            ELSE iterate(solver_nl, st.S, st.E, Append(conv, st.res), thr, n - 1))

born_solve(S, Estart, thr, max_num_iter) ==
    Let(seed(S, Estart), LAMBDA s0 : iterate("born", s0.S, s0.E, <<>>, thr, max_num_iter))

newton_solve(S, Estart, thr, max_num_iter) ==
    Let(seed(S, Estart), LAMBDA s0 : iterate("newton", s0.S, s0.E, <<>>, thr, max_num_iter))

-----------------------------------------------------------------------------
(* solve_fields_nl *)

\* the solver tags each polarization's branch dispatches on (lines 184-194,
\* 214-222)
solver_tags_swapped(p) ==
    IF p = "Ez" THEN {"born", "newton"} ELSE {"born", "newton", "LM"}

solver_tags(p) ==
    IF p = "Ez" THEN {"born", "newton", "LM"} ELSE {"born", "newton"}

\* lines 206-208, 236-238: the returned triple is written to the fields
solve_fields_nl_store_skipped(S, t) == S.fields

solve_fields_nl_store(S, t) ==
    write_fields(S.fields, IF S.pol = "Ez" THEN <<"Hx", "Hy", "Ez">>
                           ELSE <<"Ex", "Ey", "Hz">>, t)

failed(S, e) == [S |-> S, err |-> e, ret |-> None, conv_array |-> <<>>, state |-> "INIT"]

solve_fields_nl(S, solver_nl, Estart, thr, max_num_iter) ==
    IF S.pol \notin {"Ez", "Hz"} THEN failed(S, "ValueError")
    ELSE IF solver_nl \notin solver_tags(S.pol) THEN failed(S, "AssertionError")
    ELSE IF solver_nl = "LM" THEN failed(S, "NameError")   \* LM_solve is not defined
    ELSE
      Let(IF solver_nl = "born"
          THEN born_solve(S, Estart, thr, max_num_iter)
          ELSE newton_solve(S, Estart, thr, max_num_iter),
          LAMBDA r : [r EXCEPT !.S.fields = solve_fields_nl_store(r.S, r.ret)])

-----------------------------------------------------------------------------
(* flux_probe *)

Max(a, b) == IF a >= b THEN a ELSE b

Min(a, b) == IF a <= b THEN a ELSE b

\* the length of the Python slice a:b of an axis of length n
slice_len(a, b, n) ==
    LET norm(i) == IF i < 0 THEN Max(i + n, 0) ELSE Min(i, n)
    IN  Max(norm(b) - norm(a), 0)

\* the length of the slice :-1 of an axis of length n
drop_last(n) == Max(n - 1, 0)

\* lines 260-267
probe_inds(direction_normal, center, width) ==
    IF direction_normal = "x"
    THEN [x |-> <<center[1], center[1] + 1>>,
          y |-> <<Trunc(2 * center[2] - width, 2), Trunc(2 * center[2] + width, 2)>>]
    ELSE [x |-> <<Trunc(2 * center[1] - width, 2), Trunc(2 * center[1] + width, 2)>>,
          y |-> <<center[2], center[2] + 1>>]

\* lines 270-271, 282-283: the shape of the grid-averaged slice after its
\* last row and column are dropped
averaged_shape(inds, nx, ny) ==
    << drop_last(slice_len(inds.x[1], inds.x[2] + 1, nx)),
       drop_last(slice_len(inds.y[1], inds.y[2] + 1, ny)) >>

\* lines 275-290: the shape of the companion field's slice
companion_shape(inds, nx, ny) ==
    << slice_len(inds.x[1], inds.x[2], nx), slice_len(inds.y[1], inds.y[2], ny) >>

\* numpy's rule for the elementwise product of two 2D arrays
broadcastable(s, t) ==
    \A k \in 1..2 : s[k] = t[k] \/ s[k] = 1 \/ t[k] = 1

flux_probe(direction_normal, center, width) ==
    IF direction_normal \notin {"x", "y"}
    THEN [err |-> "ValueError", ret |-> None]
    ELSE IF fields[pol] = None
    THEN [err |-> "TypeError", ret |-> None]     \* None is not subscriptable
    ELSE
      LET inds == probe_inds(direction_normal, center, width)
          sa == averaged_shape(inds, Nx, Ny)
          sc == companion_shape(inds, Nx, Ny)
      IN  IF broadcastable(sa, sc)
          THEN [err |-> "none", averaged |-> sa, companion |-> sc,
                ret |-> [set |-> TRUE, power |-> "dl*sum(S)"]]
          ELSE [err |-> "ValueError", averaged |-> sa, companion |-> sc, ret |-> None]

\* plt_abs and plt_re: lines 296-297, 349-350
plt_check == IF fields[pol] = None THEN "ValueError" ELSE "none"

-----------------------------------------------------------------------------
(* The arguments the operations are called with *)

L0Inputs == {0, 2}

NPMLInputs == {<<2, 2>>, <<-1, 2>>, <<-2, 2>>, <<2, -3>>, <<2>>}

PolInputs == {"Ez", "Hz", "xx"}

EpsInputs == {[i \in Cells |-> IF i = 1 THEN a ELSE 1] : a \in 1..MaxEps}

RegionInputs == {[i \in Cells |-> IF i = 1 THEN 1 ELSE b] : b \in {0, 1}}

EInputs == {[i \in Cells |-> v] : v \in 0..MaxE}

EstartInputs == {None} \cup {[set |-> TRUE, x |-> e] : e \in EInputs}

SolverInputs == {"born", "newton", "LM", "bicg"}

StyleInputs == {"full", "halfway", "empty", "random", ""}

-----------------------------------------------------------------------------
(* The state before construction *)

Init ==
    /\ phase = "new"
    /\ assembled = FALSE
    /\ L0 = 0
    /\ NPML = <<>>
    /\ pol = ""
    /\ Nx = 0
    /\ Ny = 0
    /\ eps_r = Zeros
    /\ A = None
    /\ derivs = None
    /\ fields = [f \in FieldNames |-> None]
    /\ src = Zeros
    /\ modes = <<>>
    /\ nonlinearity = <<>>
    /\ eps_nl = Zeros
    /\ dnl_de = Zeros
    /\ dnl_deps = Zeros
    /\ Anl = None
    /\ last = [op |-> "none", err |-> "none"]

-----------------------------------------------------------------------------
(* Operations *)

\* __init__ (lines 17-43)
SimulationInit(L0_in, eps_in, NPML_in, pol_in) ==
    /\ phase = "new"
    /\ LET npml == int_NPML(NPML_in)
           err == _check_inputs(L0_in, npml, pol_in)
           w == eps_r_setter(eps_in, npml, pol_in, fields)
       IN  /\ last' = [op |-> "__init__", err |-> err, L0 |-> L0_in,
                       NPML |-> NPML_in, pol |-> pol_in]
           /\ IF err # "none"
              THEN /\ phase' = "failed"
                   /\ UNCHANGED <<assembled, L0, NPML, pol, Nx, Ny, eps_r, A, derivs,
                                  fields, src, modes, nonlinearity, eps_nl, dnl_de,
                                  dnl_deps, Anl>>
              ELSE /\ phase' = "ready"
                   /\ L0' = L0_in
                   /\ NPML' = npml
                   /\ pol' = pol_in
                   /\ Nx' = GridNx
                   /\ Ny' = GridNy
                   /\ src' = Zeros
                   /\ eps_r' = w.eps_r
                   /\ A' = w.A
                   /\ derivs' = w.derivs
                   /\ fields' = w.fields
                   /\ assembled' = TRUE
                   /\ modes' = <<>>
                   /\ nonlinearity' = <<>>
                   /\ eps_nl' = Zeros
                   /\ dnl_de' = Zeros
                   /\ dnl_deps' = Zeros
                   /\ UNCHANGED Anl

\* add_mode (lines 50-55)
AddMode(center, scale) ==
    /\ phase = "ready"
    /\ Len(modes) < MaxModes
    /\ modes' = Append(modes, [center |-> center, scale |-> scale])
    /\ last' = [op |-> "add_mode", err |-> "none"]
    /\ UNCHANGED <<phase, assembled, L0, NPML, pol, Nx, Ny, eps_r, A, derivs, fields,
                   src, nonlinearity, eps_nl, dnl_de, dnl_deps, Anl>>

\* mode.setup_src, from its contract: the mode's contribution is written
\* into the source at the mode's center
setup_src(m, s) == [s EXCEPT ![m.center] = m.scale]

RECURSIVE setup_modes_loop(_, _)
setup_modes_loop(ms, s) ==
    IF ms = <<>> THEN s ELSE setup_modes_loop(Tail(ms), setup_src(Head(ms), s))

\* setup_modes (lines 45-48)
SetupModes ==
    /\ phase = "ready"
    /\ src' = setup_modes_loop(modes, src)
    /\ last' = [op |-> "setup_modes", err |-> "none"]
    /\ UNCHANGED <<phase, assembled, L0, NPML, pol, Nx, Ny, eps_r, A, derivs, fields,
                   modes, nonlinearity, eps_nl, dnl_de, dnl_deps, Anl>>

\* add_nl (lines 70-73): chi is rescaled by L0 squared
AddNl(chi, nl_region, eps_scale) ==
    /\ phase = "ready"
    /\ Len(nonlinearity) < MaxTerms
    /\ nonlinearity' = Append(nonlinearity,
           [chi |-> chi \div (L0 * L0), nl_region |-> nl_region,
            nl_type |-> "kerr", eps_scale |-> eps_scale])
    /\ last' = [op |-> "add_nl", err |-> "none"]
    /\ UNCHANGED <<phase, assembled, L0, NPML, pol, Nx, Ny, eps_r, A, derivs, fields,
                   src, modes, eps_nl, dnl_de, dnl_deps, Anl>>

\* compute_nl (lines 57-68)
ComputeNl(e) ==
    /\ phase = "ready"
    /\ \E S \in {compute_nl(Self, e)} :
           /\ eps_nl' = S.eps_nl
           /\ dnl_de' = S.dnl_de
           /\ dnl_deps' = S.dnl_deps
           /\ Anl' = S.Anl
    /\ last' = [op |-> "compute_nl", err |-> "none", e |-> e]
    /\ UNCHANGED <<phase, assembled, L0, NPML, pol, Nx, Ny, eps_r, A, derivs, fields,
                   src, modes, nonlinearity>>

\* what an assignment to eps_r leaves alone
SetterFrame_clears_nl ==
    /\ UNCHANGED <<phase, assembled, L0, NPML, pol, Nx, Ny, src, modes, nonlinearity>>
    /\ eps_nl' = Zeros
    /\ dnl_de' = Zeros
    /\ dnl_deps' = Zeros
    /\ Anl' = None

SetterFrame ==
    UNCHANGED <<phase, assembled, L0, NPML, pol, Nx, Ny, src, modes, nonlinearity,
                eps_nl, dnl_de, dnl_deps, Anl>>

\* sim.eps_r = new_eps (lines 79-88)
SetEps(new_eps) ==
    /\ phase = "ready"
    /\ \E w \in {eps_r_setter(new_eps, NPML, pol, fields)} :
           /\ eps_r' = w.eps_r
           /\ A' = w.A
           /\ derivs' = w.derivs
           /\ fields' = w.fields
    /\ last' = [op |-> "eps_r", err |-> "none", new_eps |-> new_eps]
    /\ SetterFrame

\* reset_eps (lines 90-99): the setter, then the same assembly once more
ResetEps(new_eps) ==
    /\ phase = "ready"
    /\ LET w == eps_r_setter(new_eps, NPML, pol, fields)
           c == construct_A(w.eps_r, NPML, pol)
       IN  /\ eps_r' = w.eps_r
           /\ A' = c.A
           /\ derivs' = c.derivs
           /\ fields' = [f \in FieldNames |-> None]
    /\ last' = [op |-> "reset_eps", err |-> "none", new_eps |-> new_eps]
    /\ SetterFrame

\* the permittivity each style of init_design_region assigns (lines 319-341);
\* rnd stands for np.random.random: where it is drawn, a value in [1, eps_m)
design_eps(design_region, eps_m, style, rnd) ==
    [i \in Cells |->
        CASE style = "full" ->
                IF design_region[i] = 0 THEN eps_r[i] ELSE eps_m
          [] style = "halfway" ->
                IF design_region[i] = 1 THEN (eps_m + 1) \div 2 ELSE eps_r[i]
          [] style = "empty" ->
                IF design_region[i] = 0 THEN eps_r[i] ELSE 1
          [] style = "random" ->
                IF design_region[i] = 0 THEN eps_r[i] ELSE rnd[i]]

RecognisedStyles == {"full", "halfway", "empty", "random"}

\* init_design_region (lines 316-341)
InitDesignRegion(design_region, eps_m, style, rnd) ==
    /\ phase = "ready"
    /\ last' = [op |-> "init_design_region", err |-> "none", style |-> style]
    /\ IF style \in RecognisedStyles
       THEN /\ \E w \in {eps_r_setter(design_eps(design_region, eps_m, style, rnd),
                                         NPML, pol, fields)} :
                   /\ eps_r' = w.eps_r
                   /\ A' = w.A
                   /\ derivs' = w.derivs
                   /\ fields' = w.fields
            /\ SetterFrame
       ELSE UNCHANGED <<phase, assembled, L0, NPML, pol, Nx, Ny, eps_r, A, derivs,
                        fields, src, modes, nonlinearity, eps_nl, dnl_de, dnl_deps,
                        Anl>>

\* solve_fields (lines 110-174)
SolveFields(include_nl) ==
    /\ phase = "ready"
    /\ \E r \in {solve_fields(Self, include_nl)} :
           /\ fields' = r.S.fields
           /\ last' = [op |-> "solve_fields", err |-> r.err, include_nl |-> include_nl,
                       ret |-> r.ret]
    /\ UNCHANGED <<phase, assembled, L0, NPML, pol, Nx, Ny, eps_r, A, derivs, src,
                   modes, nonlinearity, eps_nl, dnl_de, dnl_deps, Anl>>

\* solve_fields_nl (lines 176-243)
SolveFieldsNl(solver_nl, Estart, thr, max_num_iter) ==
    /\ phase = "ready"
    /\ \E r \in {solve_fields_nl(Self, solver_nl, Estart, thr, max_num_iter)} :
           /\ fields' = r.S.fields
           /\ eps_nl' = r.S.eps_nl
           /\ dnl_de' = r.S.dnl_de
           /\ dnl_deps' = r.S.dnl_deps
           /\ Anl' = r.S.Anl
           /\ last' = [op |-> "solve_fields_nl", err |-> r.err, solver_nl |-> solver_nl,
                       Estart |-> Estart, conv_threshold |-> thr,
                       max_num_iter |-> max_num_iter, ret |-> r.ret,
                       conv_array |-> r.conv_array, state |-> r.state,
                       solves |-> r.S.solves]
    /\ UNCHANGED <<phase, assembled, L0, NPML, pol, Nx, Ny, eps_r, A, derivs, src,
                   modes, nonlinearity>>

\* flux_probe (lines 256-291)
FluxProbe(direction_normal, center, width) ==
    /\ phase = "ready"
    /\ last' = [op |-> "flux_probe", direction_normal |-> direction_normal,
                center |-> center, width |-> width,
                r |-> flux_probe(direction_normal, center, width)]
    /\ UNCHANGED <<phase, assembled, L0, NPML, pol, Nx, Ny, eps_r, A, derivs, fields,
                   src, modes, nonlinearity, eps_nl, dnl_de, dnl_deps, Anl>>

\* plt_abs (lines 293-314)
PltAbs ==
    /\ phase = "ready"
    /\ last' = [op |-> "plt_abs", err |-> plt_check]
    /\ UNCHANGED <<phase, assembled, L0, NPML, pol, Nx, Ny, eps_r, A, derivs, fields,
                   src, modes, nonlinearity, eps_nl, dnl_de, dnl_deps, Anl>>

\* plt_re (lines 343-361)
PltRe ==
    /\ phase = "ready"
    /\ last' = [op |-> "plt_re", err |-> plt_check]
    /\ UNCHANGED <<phase, assembled, L0, NPML, pol, Nx, Ny, eps_r, A, derivs, fields,
                   src, modes, nonlinearity, eps_nl, dnl_de, dnl_deps, Anl>>

-----------------------------------------------------------------------------
(* Specifications *)

\* flux probes: every center of the grid, in both directions and a bad one
ProbeInputs ==
    {<<d, <<c0, c1>>, w>> : d \in {"x", "y", "z"}, c0 \in 0..(GridNx - 1),
                            c1 \in 0..(GridNy - 1), w \in 1..MaxWidth}

Construct ==
    \E l \in L0Inputs, e \in EpsInputs, n \in NPMLInputs, p \in PolInputs :
        SimulationInit(l, e, n, p)

ConstructValid ==
    \E e \in EpsInputs, p \in {"Ez", "Hz"} : SimulationInit(2, e, <<2, 2>>, p)

\* the life of a simulation whose permittivity is edited: construction,
\* permittivity changes, solves, plots and probes
Next ==
    \/ Construct
    \/ AddMode(1, 1)
    \/ SetupModes
    \/ \E e \in EpsInputs : SetEps(e)
    \/ \E e \in EpsInputs : ResetEps(e)
    \/ \E d \in RegionInputs, st \in StyleInputs \ {"random"} :
            InitDesignRegion(d, MaxEps, st, Ones)
    \/ \E d \in RegionInputs, rnd \in [Cells -> 1..Max(MaxEps - 1, 1)] :
            InitDesignRegion(d, MaxEps, "random", rnd)
    \/ \E nl \in BOOLEAN : SolveFields(nl)
    \/ \E sv \in SolverInputs : SolveFieldsNl(sv, None, 1, 1)
    \/ PltAbs
    \/ PltRe
    \/ \E c0 \in {1, GridNx - 1}, w \in {1, 2} : FluxProbe("x", <<c0, 1>>, w)

Spec == Init /\ [][Next]_vars

\* the nonlinear solvers at work
NextNl ==
    \/ ConstructValid
    \/ AddMode(1, 1)
    \/ SetupModes
    \/ AddNl(4, Ones, FALSE)
    \/ SetEps([i \in Cells |-> MaxEps])
    \/ \E nl \in BOOLEAN : SolveFields(nl)
    \/ \E sv \in SolverInputs,
          es \in {None, [set |-> TRUE, x |-> [i \in Cells |-> MaxE]]},
          thr \in 0..MaxThr, n \in 1..MaxIter : SolveFieldsNl(sv, es, thr, n)

SpecNl == Init /\ [][NextNl]_vars

\* the accumulation of the nonlinear terms
NextAcc ==
    \/ ConstructValid
    \/ AddMode(1, 1)
    \/ SetupModes
    \/ \E r \in RegionInputs, sc \in BOOLEAN : AddNl(4, r, sc)
    \/ \E e \in EInputs : ComputeNl(e)
    \/ \E e \in EpsInputs : SetEps(e)
    \/ \E nl \in BOOLEAN : SolveFields(nl)

SpecAcc == Init /\ [][NextAcc]_vars

\* flux probes of a solved simulation
NextProbe ==
    \/ ConstructValid
    \/ SolveFields(FALSE)
    \/ \E e \in EpsInputs : SetEps(e)
    \/ \E q \in ProbeInputs : FluxProbe(q[1], q[2], q[3])

SpecProbe == Init /\ [][NextProbe]_vars

-----------------------------------------------------------------------------
(* Properties *)

Populated == {f \in FieldNames : fields[f] # None}

PolFields(p) == IF p = "Ez" THEN {"Hx", "Hy", "Ez"} ELSE {"Ex", "Ey", "Hz"}

Solved == last.op \in {"solve_fields", "solve_fields_nl"} /\ last.err = "none"

\* C1: the fields mapping has no entry or exactly three entries populated,
\* and after a successful solve_fields or solve_fields_nl the populated
\* three are those of the polarization
C1_FieldsByPolarization ==
    /\ Populated = {} \/ Cardinality(Populated) = 3
    /\ Solved => Populated = PolFields(pol)

C1_Witness ==
    /\ last.op = "solve_fields_nl"
    /\ last.err = "none"
    /\ pol = "Hz"
    /\ Populated = {"Ex", "Ey", "Hz"}

ChangedEps ==
    \/ last.op \in {"eps_r", "reset_eps"}
    \/ last.op = "init_design_region" /\ last.style \in RecognisedStyles

\* C2: every operation that changes the permittivity rebuilds A and the
\* derivative operators from the new permittivity and leaves all six fields
\* unset, so that no field computed for an earlier permittivity is observed:
\* a plot after the change raises, and a populated field is always one of the
\* current permittivity
C2_EpsChangeInvalidates ==
    phase = "ready" =>
        /\ A = construct_A(eps_r, NPML, pol).A
        /\ derivs = construct_A(eps_r, NPML, pol).derivs
        /\ \A f \in Populated : fields[f].eps = eps_r
        /\ ChangedEps => Populated = {} /\ plt_check = "ValueError"
        /\ last.op \in {"eps_r", "reset_eps"} => eps_r = last.new_eps
        /\ last.op \in {"plt_abs", "plt_re"} /\ last.err = "none"
              => fields[pol].eps = eps_r

\* a plot raises although a nonlinear solve has run on this simulation: the
\* permittivity was changed after it
C2_Witness ==
    /\ last.op = "plt_abs"
    /\ last.err = "ValueError"
    /\ Anl # None
    /\ eps_r # Ones

NlRun == last.op = "solve_fields_nl" /\ last.solver_nl \in {"born", "newton"}

\* C3: a run of the nonlinear solver with the fixed-point or the Newton tag
\* raises nothing, performs between one and max_num_iter iterations, records
\* one residual per iteration, ends in CONVERGED exactly when an iteration's
\* residual is below conv_threshold (and then at that iteration), in
\* MAX_ITER_EXCEEDED after max_num_iter iterations otherwise, and writes the
\* returned triple to the three field entries of the polarization
C3_NonlinearRun ==
    NlRun =>
        LET conv == last.conv_array
            thr == last.conv_threshold
            names == solve_fields_names(pol)
        IN  /\ last.err = "none"
            /\ Len(conv) \in 1..last.max_num_iter
            /\ last.state \in {"CONVERGED", "MAX_ITER_EXCEEDED"}
            /\ last.state = "CONVERGED" <=> \E k \in 1..Len(conv) : Below(conv[k], thr)
            /\ \A k \in 1..(Len(conv) - 1) : ~Below(conv[k], thr)
            /\ last.state = "MAX_ITER_EXCEEDED" => Len(conv) = last.max_num_iter
            /\ last.ret # None
            /\ \A k \in 1..3 : fields[names[k]] = last.ret[k]
            /\ Populated = PolFields(pol)

\* a run that converges at its second iteration, from the caller's Estart
C3_Witness ==
    /\ NlRun
    /\ last.state = "CONVERGED"
    /\ Len(last.conv_array) = 2
    /\ last.Estart # None

\* the solver tags the claim takes each polarization to recognise
ClaimedTags(p) ==
    IF p = "Ez" THEN {"born", "newton"} ELSE {"born", "newton", "LM"}

\* C4 as stated: solve_fields_nl fails with an AssertionError exactly for the
\* tags outside {born, newton} for Ez and outside {born, newton, LM} for Hz
C4_AsStated ==
    last.op = "solve_fields_nl" =>
        (last.err = "AssertionError" <=> last.solver_nl \notin ClaimedTags(pol))

\* C4: solve_fields_nl fails with an AssertionError for every tag outside
\* {born, newton} for Hz and outside {born, newton, LM} for Ez, and with a
\* NameError for LM under Ez; on either failure no solve runs and the fields
\* mapping is unchanged
C4_UnrecognisedTag ==
    [][ (last'.op = "solve_fields_nl" /\ last'.solver_nl \notin {"born", "newton"})
          => /\ last'.err = IF pol = "Ez" /\ last'.solver_nl = "LM"
                            THEN "NameError" ELSE "AssertionError"
             /\ last'.solves = 0
             /\ fields' = fields
             /\ last'.ret = None ]_vars

\* LM is refused under Hz while solved fields are in place
C4_Witness ==
    /\ last.op = "solve_fields_nl"
    /\ last.solver_nl = "LM"
    /\ pol = "Hz"
    /\ last.err = "AssertionError"
    /\ Populated # {}

\* C5: flux_probe with a valid direction on unpopulated fields fails with the
\* error the class raises for a simulation that has not been solved, and
\* returns no power
C5_ProbeBeforeSolve ==
    (last.op = "flux_probe" /\ last.direction_normal \in {"x", "y"}
        /\ fields[pol] = None)
      => last.r.err = plt_check /\ last.r.ret = None

\* C6: construction with an unrecognised polarization or a negative PML
\* thickness fails with an AssertionError before any assembly
C6_RejectsBadConfig ==
    (last.op = "__init__"
        /\ (last.pol \notin {"Ez", "Hz"} \/ \E k \in 1..Len(last.NPML) : last.NPML[k] < 0))
      => /\ last.err = "AssertionError"
         /\ phase = "failed"
         /\ ~assembled
         /\ A = None /\ derivs = None /\ Populated = {}

ZeroResidual(res) == res.num = 0 /\ res.den > 0

\* a nonlinear run without registered terms, started from the linear solution
LinearStart ==
    /\ NlRun
    /\ nonlinearity = <<>>
    /\ last.Estart = None \/ last.Estart.x = solver_direct(A, src)

\* C7 as stated: such a run converges after exactly one iteration with
\* residual 0 and returns the linear solve's fields
C7_AsStated ==
    LinearStart =>
        /\ last.state = "CONVERGED"
        /\ Len(last.conv_array) = 1
        /\ ZeroResidual(last.conv_array[1])
        /\ last.ret = solve_fields(Self, FALSE).ret

\* C7: such a run returns the linear solve's fields; with a positive
\* conv_threshold and a linear solution that is not zero everywhere it
\* converges after exactly one iteration with residual 0, and otherwise it
\* performs max_num_iter iterations and ends in MAX_ITER_EXCEEDED
C7_ZeroPerturbation ==
    LinearStart =>
        /\ last.ret = solve_fields(Self, FALSE).ret
        /\ IF last.conv_threshold > 0 /\ last.ret[3].x # Zeros
           THEN /\ last.state = "CONVERGED"
                /\ Len(last.conv_array) = 1
                /\ ZeroResidual(last.conv_array[1])
           ELSE /\ last.state = "MAX_ITER_EXCEEDED"
                /\ Len(last.conv_array) = last.max_num_iter

C7_Witness ==
    /\ LinearStart
    /\ last.solver_nl = "newton"
    /\ last.Estart = None
    /\ last.state = "CONVERGED"
    /\ src # Zeros
    /\ last.max_num_iter > 1

\* the sum over the registered terms of a contribution at (e, eps_r)
TermSum(Term(_, _, _), e) ==
    [i \in Cells |->
        SumTo([k \in 1..Len(nonlinearity) |-> Term(nonlinearity[k], e, eps_r)[i]],
              Len(nonlinearity))]

\* C8: after compute_nl(e) the stored perturbation and its two derivatives
\* are the sums over the registered terms of the terms' contributions at
\* (e, eps_r); with no registered term all three are zero
C8_SumOfTerms ==
    last.op = "compute_nl" =>
        /\ eps_nl = TermSum(term_eps_nl, last.e)
        /\ dnl_de = TermSum(term_dnl_de, last.e)
        /\ dnl_deps = TermSum(term_dnl_deps, last.e)
        /\ Anl = [set |-> TRUE, diag |-> eps_nl]
        /\ nonlinearity = <<>> => eps_nl = Zeros /\ dnl_de = Zeros /\ dnl_deps = Zeros

C8_Witness ==
    /\ last.op = "compute_nl"
    /\ Len(nonlinearity) = 2
    /\ nonlinearity[1] # nonlinearity[2]
    /\ \A i \in Cells : eps_nl[i] > 0 /\ dnl_deps[i] > 0

\* the probe line lies within the grid
InGrid(d, c, w) ==
    IF d = "x"
    THEN c[1] \in 0..(Nx - 1) /\ 2 * c[2] - w >= 0 /\ 2 * c[2] + w <= 2 * Ny
    ELSE c[2] \in 0..(Ny - 1) /\ 2 * c[1] - w >= 0 /\ 2 * c[1] + w <= 2 * Nx

LineShape(d, w) == IF d = "x" THEN <<1, w>> ELSE <<w, 1>>

\* C9: for a probe line within the grid, the averaged and trimmed slice and
\* the companion slice both have the shape of a line width cells long and
\* one cell thick
C9_ProbeLineShape ==
    (last.op = "flux_probe" /\ last.direction_normal \in {"x", "y"}
        /\ fields[pol] # None
        /\ InGrid(last.direction_normal, last.center, last.width))
      => /\ last.r.averaged = LineShape(last.direction_normal, last.width)
         /\ last.r.companion = LineShape(last.direction_normal, last.width)

\* C10: an assignment to eps_r leaves the source, the modes, the registered
\* nonlinear terms and the stored perturbation as they were, and a solve
\* with include_nl uses the stored perturbation
C10_SetterFrame ==
    /\ [][ last'.op = "eps_r"
             => /\ src' = src
                /\ modes' = modes
                /\ nonlinearity' = nonlinearity
                /\ eps_nl' = eps_nl
                /\ dnl_de' = dnl_de
                /\ dnl_deps' = dnl_deps
                /\ Anl' = Anl ]_vars
    /\ [](last.op = "solve_fields" /\ last.err = "none" /\ last.include_nl
             => last.ret[3].x = solver_direct(MatAdd(A, Anl), src))

\* the permittivity was assigned while a perturbation, a mode and a source
\* were in place, and the perturbation is not the one of the new permittivity
C10_Witness ==
    /\ last.op = "eps_r"
    /\ modes # <<>>
    /\ src # Zeros
    /\ nonlinearity # <<>>
    /\ eps_nl # Zeros
    /\ \A e \in EInputs : eps_nl # TermSum(term_eps_nl, e)

====
